---- MODULE Spec2Model ----
(***************************************************************************)
(* DHT network discovery state machine                                     *)
(* (comms/dht/src/network_discovery/state_machine.rs).                     *)
(*                                                                         *)
(* The specifications share the variables below:                           *)
(*   Spec            the driver loop DhtNetworkDiscovery::run, racing the  *)
(*                   active handler against the shutdown signal;           *)
(*   SpecTransition  one call of DhtNetworkDiscovery::transition on an     *)
(*                   arbitrary (State, StateEvent) pair;                   *)
(*   SpecCounter     clones of one NetworkDiscoveryContext calling the     *)
(*                   round counter's operations in any interleaving.       *)
(***************************************************************************)
EXTENDS Integers, Sequences, FiniteSets, TLC

(***************************************************************************)
(* Bounds of the model                                                     *)
(***************************************************************************)
\* largest value of a round statistic that the state machine reads
MaxCount == 1
\* largest configured period (seconds)
MaxPeriod == 2
\* largest number of broadcast receivers alive at once
MaxSubscribers == 1
\* number of clones of the context that use the round counter
MaxCallers == 2
\* largest value the round counter is taken to
MaxRounds == 3

(***************************************************************************)
(* Data types                                                              *)
(***************************************************************************)
\* NodeId: the state machine never looks into a node id
NodeIds == {"n1", "n2"}

\* Vec<NodeId>: the state machine passes these lists on unread, so an empty
\* and a non-empty list stand for all of them
PeerLists == {<<>>, <<"n2", "n1">>}

\* usize values of the fields that the state machine passes on unread
UnreadCounts == {0, 3}

\* struct DiscoveryParams
DiscoveryParams ==
    [peers : PeerLists,
     num_peers_to_request : UnreadCounts,
     max_accept_closer_peers : UnreadCounts]

\* struct DhtNetworkDiscoveryRoundInfo
DhtNetworkDiscoveryRoundInfo ==
    [num_new_neighbours : 0..MaxCount,
     num_new_peers : 0..MaxCount,
     num_duplicate_peers : UnreadCounts,
     num_succeeded : 0..MaxCount,
     sync_peers : PeerLists]

\* the kinds of NetworkDiscoveryError (spec section 7)
NetworkDiscoveryError == {"InitializationFailure", "RoundFailure", "Generic"}

\* DhtConfig.network_discovery: the three options the state machine reads
DhtConfig ==
    [enabled : BOOLEAN,
     idle_period : 1..MaxPeriod,
     on_failure_idle_period : 1..MaxPeriod]

\* enum State.  Ready holds a DiscoveryReady, whose last round is None after
\* DiscoveryReady::initial and Some(stats) after DiscoveryReady::new; an
\* Option is a sequence of length 0 or 1.
StateInitializing == [tag |-> "Initializing"]
StateReady(last_discovery) == [tag |-> "Ready", last_discovery |-> last_discovery]
StateDiscovering(params) == [tag |-> "Discovering", params |-> params]
StateWaiting(duration) == [tag |-> "Waiting", duration |-> duration]
StateShutdown == [tag |-> "Shutdown"]

State ==
    {StateInitializing, StateShutdown}
    \cup {StateReady(<<>>)}
    \cup {StateReady(<<i>>) : i \in DhtNetworkDiscoveryRoundInfo}
    \cup {StateDiscovering(p) : p \in DiscoveryParams}
    \cup {StateWaiting(d) : d \in 1..MaxPeriod}

\* enum StateEvent
EventInitialized == [tag |-> "Initialized"]
EventBeginDiscovery(params) == [tag |-> "BeginDiscovery", params |-> params]
EventReady == [tag |-> "Ready"]
EventIdle == [tag |-> "Idle"]
EventDiscoveryComplete(stats) == [tag |-> "DiscoveryComplete", stats |-> stats]
EventErrored(err) == [tag |-> "Errored", err |-> err]
EventShutdown == [tag |-> "Shutdown"]

StateEvent ==
    {EventInitialized, EventReady, EventIdle, EventShutdown}
    \cup {EventBeginDiscovery(p) : p \in DiscoveryParams}
    \cup {EventDiscoveryComplete(i) : i \in DhtNetworkDiscoveryRoundInfo}
    \cup {EventErrored(e) : e \in NetworkDiscoveryError}

\* DhtEvent::NetworkDiscoveryPeersAdded(stats)
NetworkDiscoveryPeersAdded(stats) == [tag |-> "NetworkDiscoveryPeersAdded", stats |-> stats]

(***************************************************************************)
(* Pure functions                                                          *)
(***************************************************************************)
\* State::is_shutdown
is_shutdown(s) == s.tag = "Shutdown"

\* Variant of has_new_peers that reads the neighbour count
has_new_peers_Neighbours(info) == info.num_new_neighbours > 0

\* DhtNetworkDiscoveryRoundInfo::has_new_peers
has_new_peers(info) == info.num_new_peers > 0

\* DhtNetworkDiscoveryRoundInfo::has_new_neighbours
has_new_neighbours(info) == info.num_new_neighbours > 0

\* Variant of is_success that reads the new-peer count
is_success_NewPeers(info) == info.num_new_peers > 0

\* DhtNetworkDiscoveryRoundInfo::is_success
is_success(info) == info.num_succeeded > 0

\* The match of DhtNetworkDiscovery::transition.  The arms are tried in
\* source order.  The result is the next State together with the DhtEvents
\* handed to publish_event during the call, in order.
transition_match(cfg, current_state, next_event) ==
    IF current_state.tag = "Initializing" /\ next_event.tag = "Initialized"
    THEN [state |-> StateReady(<<>>), published |-> <<>>]
    ELSE IF next_event.tag = "Ready"
    THEN [state |-> StateReady(<<>>), published |-> <<>>]
    ELSE IF current_state.tag = "Ready" /\ next_event.tag = "BeginDiscovery"
    THEN [state |-> StateDiscovering(next_event.params), published |-> <<>>]
    ELSE IF current_state.tag = "Discovering" /\ next_event.tag = "DiscoveryComplete"
    THEN LET stats == next_event.stats
             pub == IF has_new_peers(stats)
                    THEN <<NetworkDiscoveryPeersAdded(stats)>>
                    ELSE <<>>
         IN  IF ~is_success(stats)
             THEN [state |-> StateWaiting(cfg.on_failure_idle_period), published |-> pub]
             ELSE [state |-> StateReady(<<stats>>), published |-> pub]
    ELSE IF current_state.tag = "Ready" /\ next_event.tag = "Idle"
    THEN [state |-> StateWaiting(cfg.idle_period), published |-> <<>>]
    ELSE IF next_event.tag = "Shutdown"
    THEN [state |-> StateShutdown, published |-> <<>>]
    ELSE IF next_event.tag = "Errored"
    THEN [state |-> StateWaiting(cfg.on_failure_idle_period), published |-> <<>>]
    ELSE [state |-> current_state, published |-> <<>>]

\* Variant of transition without the (_, Shutdown) arm: the event falls
\* through to the last arm
transition_ShutdownUnmatched(cfg, current_state, next_event) ==
    IF next_event.tag = "Shutdown"
    THEN [state |-> current_state, published |-> <<>>]
    ELSE transition_match(cfg, current_state, next_event)

\* Variant of transition whose (_, Errored) arm waits for idle_period
transition_ErroredIdlePeriod(cfg, current_state, next_event) ==
    IF next_event.tag = "Errored"
    THEN [state |-> StateWaiting(cfg.idle_period), published |-> <<>>]
    ELSE transition_match(cfg, current_state, next_event)

\* Variant of transition whose BeginDiscovery arm matches any state
transition_BeginAnywhere(cfg, current_state, next_event) ==
    IF next_event.tag = "BeginDiscovery"
    THEN [state |-> StateDiscovering(next_event.params), published |-> <<>>]
    ELSE transition_match(cfg, current_state, next_event)

\* Variant of transition whose (Ready, Idle) arm waits for
\* on_failure_idle_period
transition_IdleFailurePeriod(cfg, current_state, next_event) ==
    IF current_state.tag = "Ready" /\ next_event.tag = "Idle"
    THEN [state |-> StateWaiting(cfg.on_failure_idle_period), published |-> <<>>]
    ELSE transition_match(cfg, current_state, next_event)

\* Variant of transition in which an error ends the state machine
transition_ErroredFatal(cfg, current_state, next_event) ==
    IF next_event.tag = "Errored"
    THEN [state |-> StateShutdown, published |-> <<>>]
    ELSE transition_match(cfg, current_state, next_event)

\* Variant of transition without the (_, Ready) arm: the event falls
\* through to the last arm
transition_ReadyUnmatched(cfg, current_state, next_event) ==
    IF next_event.tag = "Ready"
    THEN [state |-> current_state, published |-> <<>>]
    ELSE transition_match(cfg, current_state, next_event)

\* Variant of transition whose (Initializing, Initialized) arm seeds the
\* Ready state with the statistics of an empty round
transition_FreshReadySeeded(cfg, current_state, next_event) ==
    IF current_state.tag = "Initializing" /\ next_event.tag = "Initialized"
    THEN [state |-> StateReady(<<[num_new_neighbours |-> 0, num_new_peers |-> 0,
                                  num_duplicate_peers |-> 0, num_succeeded |-> 0,
                                  sync_peers |-> <<>>]>>),
          published |-> <<>>]
    ELSE transition_match(cfg, current_state, next_event)

\* Variant of transition whose (Initializing, Initialized) arm starts a
\* round at once
transition_InitializedStartsRound(cfg, current_state, next_event) ==
    IF current_state.tag = "Initializing" /\ next_event.tag = "Initialized"
    THEN [state |-> StateDiscovering(CHOOSE p \in DiscoveryParams : TRUE),
          published |-> <<>>]
    ELSE transition_match(cfg, current_state, next_event)

\* DhtNetworkDiscovery::transition
transition(cfg, current_state, next_event) ==
    transition_match(cfg, current_state, next_event)

\* DhtNetworkDiscovery::publish_event: one broadcast send whose result is
\* dropped.  The send reaches the receivers alive at that moment and is an
\* Err when there are none.
publish_event(event, receivers) ==
    [event |-> event, receivers |-> receivers, ok |-> receivers > 0]

\* The sends of a sequence of events, in order, with `receivers` alive
RECURSIVE publish_all(_, _)
publish_all(events, receivers) ==
    IF events = <<>> THEN <<>>
    ELSE <<publish_event(Head(events), receivers)>> \o publish_all(Tail(events), receivers)

(***************************************************************************)
(* State                                                                   *)
(***************************************************************************)
VARIABLES
    config,             \* self.context.config.network_discovery
    pc,                 \* position in run / in the single transition call
    state,              \* Option<State>: the local `state` of run
    handler,            \* the future of get_next_event of this iteration
    next_event,         \* Option<StateEvent>: the local `next_event` of run
    shutdown_triggered, \* the ShutdownSignal has resolved
    signal_polled,      \* the ShutdownSignal has been awaited at least once
    subscribers,        \* receivers of event_tx alive
    published,          \* log of the event_tx.send calls of this iteration
    last,               \* Option: the call of transition of this iteration
    applied_after_signal, \* events other than Shutdown applied since the signal
    num_rounds,         \* the AtomicUsize behind context.num_rounds
    observed,           \* per clone: the value its latest call returned
    inc_returns,        \* the increment_num_rounds calls since the last reset
    last_op             \* the latest call on the round counter

\* the round counter and the records of its callers
ctxvars == <<num_rounds, observed, inc_returns, last_op>>

vars == <<config, pc, state, handler, next_event, shutdown_triggered,
          signal_polled, subscribers, published, last, applied_after_signal,
          ctxvars>>

\* the clones of the NetworkDiscoveryContext
Callers == 1..MaxCallers

\* NetworkDiscoveryContext after DhtNetworkDiscovery::new: num_rounds is
\* Default::default(), and no clone has called anything
InitContext ==
    /\ num_rounds = 0
    /\ observed = [c \in Callers |-> 0]
    /\ inc_returns = <<>>
    /\ last_op = [op |-> "new", caller |-> 0, ret |-> 0]

HandlerNone == [status |-> "none"]

\* Variant of the call of transition that cannot go on when a send finds no
\* receiver (the Err of send is not dropped)
ApplyTransition_SendMustSucceed(e) ==
    LET r == transition(config, state[1], e)
        sends == publish_all(r.published, subscribers)
    IN  /\ \A i \in 1..Len(sends) : sends[i].ok
        /\ state' = <<r.state>>
        /\ published' = published \o sends
        /\ last' = <<[from |-> state[1], event |-> e, to |-> r.state,
                      published |-> r.published]>>

\* The call of transition on the current state with event e, with the sends
\* it makes
ApplyTransition(e) ==
    LET r == transition(config, state[1], e)
    IN  /\ state' = <<r.state>>
        /\ published' = published \o publish_all(r.published, subscribers)
        /\ last' = <<[from |-> state[1], event |-> e, to |-> r.state,
                      published |-> r.published]>>

(***************************************************************************)
(* SpecTransition: one call of transition on any state and any event       *)
(***************************************************************************)
InitTransition ==
    /\ config \in {c \in DhtConfig : c.enabled}
    /\ pc = "call"
    /\ state \in {<<s>> : s \in State}
    /\ handler = HandlerNone
    /\ next_event = <<>>
    /\ shutdown_triggered = FALSE
    /\ signal_polled = FALSE
    /\ subscribers \in 0..MaxSubscribers
    /\ published = <<>>
    /\ last = <<>>
    /\ applied_after_signal = 0
    /\ InitContext

CallTransition ==
    /\ pc = "call"
    /\ \E e \in StateEvent :
        /\ next_event' = <<e>>
        /\ ApplyTransition(e)
    /\ pc' = "called"
    /\ UNCHANGED <<config, handler, shutdown_triggered, signal_polled, subscribers>>
    /\ UNCHANGED <<applied_after_signal, ctxvars>>

NextTransition == CallTransition

SpecTransition == InitTransition /\ [][NextTransition]_vars

(***************************************************************************)
(* State handlers (initializing.rs, ready.rs, discovering.rs, waiting.rs)  *)
(***************************************************************************)
\* The events the next_event of the handler of state s can resolve to
HandlerEvents(s) ==
    CASE s.tag = "Initializing" ->
            {EventInitialized} \cup {EventErrored("InitializationFailure")}
      [] s.tag = "Ready" ->
            {EventIdle} \cup {EventBeginDiscovery(p) : p \in DiscoveryParams}
            \cup {EventErrored("Generic")}
      [] s.tag = "Discovering" ->
            {EventDiscoveryComplete(i) : i \in DhtNetworkDiscoveryRoundInfo}
            \cup {EventErrored("RoundFailure")}
      [] s.tag = "Waiting" -> {EventReady}
      [] OTHER -> {}

\* DhtNetworkDiscovery::get_next_event: what the future created for state s
\* is when it is created.  For the four states with a handler it is the
\* next_event of the handler of s, an operation in flight; for any other
\* state it resolves at once to Shutdown.
get_next_event(s) ==
    IF s.tag \in {"Initializing", "Ready", "Discovering", "Waiting"}
    THEN [status |-> "created", of |-> s]
    ELSE [status |-> "ready", of |-> s, event |-> EventShutdown]

\* Variant of or_shutdown that awaits the handler alone
or_shutdown_HandlerOnly(triggered, fut) ==
    IF fut.status = "ready" THEN [either |-> "Right", event |-> fut.event]
    ELSE [either |-> "Pending"]

\* Variant of or_shutdown that selects with the handler first:
\* future::select(fut, shutdown_signal)
or_shutdown_HandlerFirst(triggered, fut) ==
    IF fut.status = "ready" THEN [either |-> "Right", event |-> fut.event]
    ELSE IF triggered THEN [either |-> "Left", event |-> EventShutdown]
    ELSE [either |-> "Pending"]

\* or_shutdown: one poll of future::select(shutdown_signal, fut).  The
\* signal is polled first and wins (Either::Left) when it has resolved;
\* otherwise fut is polled and gives its event (Either::Right) when it has
\* completed; while neither has, the select is pending.
or_shutdown(triggered, fut) ==
    IF triggered THEN [either |-> "Left", event |-> EventShutdown]
    ELSE IF fut.status = "ready" THEN [either |-> "Right", event |-> fut.event]
    ELSE [either |-> "Pending"]

(***************************************************************************)
(* Spec: the driver loop DhtNetworkDiscovery::run                          *)
(***************************************************************************)
Init ==
    /\ config \in DhtConfig
    /\ pc = "run"
    /\ state = <<>>
    /\ handler = HandlerNone
    /\ next_event = <<>>
    /\ shutdown_triggered = FALSE
    /\ signal_polled = FALSE
    /\ subscribers \in 0..MaxSubscribers
    /\ published = <<>>
    /\ last = <<>>
    /\ applied_after_signal = 0
    /\ InitContext

\* run, line 237: the guard on `enabled` before the loop
RunDisabled ==
    /\ pc = "run"
    /\ ~config.enabled
    /\ pc' = "returned"
    /\ UNCHANGED <<config, state, handler, next_event, shutdown_triggered,
                   signal_polled, subscribers, published, last>>
    /\ UNCHANGED <<applied_after_signal, ctxvars>>

\* Variant of the entry of run without the guard on `enabled`
RunEnabled_IgnoreFlag ==
    /\ pc = "run"
    /\ state' = <<StateInitializing>>
    /\ pc' = "loop"
    /\ UNCHANGED <<config, handler, next_event, shutdown_triggered,
                   signal_polled, subscribers, published, last>>
    /\ UNCHANGED <<applied_after_signal, ctxvars>>

\* run, line 245: let mut state = State::Initializing
RunEnabled ==
    /\ pc = "run"
    /\ config.enabled
    /\ state' = <<StateInitializing>>
    /\ pc' = "loop"
    /\ UNCHANGED <<config, handler, next_event, shutdown_triggered,
                   signal_polled, subscribers, published, last>>
    /\ UNCHANGED <<applied_after_signal, ctxvars>>

\* Variant of the top of an iteration that, once an event has been
\* obtained, applies it again instead of asking the handler
BeginIteration_ReuseEvent ==
    /\ pc = "loop"
    /\ IF next_event # <<>>
       THEN /\ pc' = "transition"
            /\ UNCHANGED <<handler, next_event, last, published>>
       ELSE /\ handler' = get_next_event(state[1])
            /\ next_event' = <<>>
            /\ last' = <<>>
            /\ published' = <<>>
            /\ pc' = "select"
    /\ UNCHANGED <<config, state, shutdown_triggered, signal_polled, subscribers>>
    /\ UNCHANGED <<applied_after_signal, ctxvars>>

\* run, lines 247-250: the top of an iteration creates the future of
\* get_next_event for the current state.  The records of the previous
\* iteration (last, published) are dropped.
BeginIteration ==
    /\ pc = "loop"
    /\ handler' = get_next_event(state[1])
    /\ next_event' = <<>>
    /\ last' = <<>>
    /\ published' = <<>>
    /\ pc' = "select"
    /\ UNCHANGED <<config, state, shutdown_triggered, signal_polled, subscribers>>
    /\ UNCHANGED <<applied_after_signal, ctxvars>>

\* The operation of the active handler completes: its next poll will
\* resolve to e.
HandlerCompletes ==
    /\ pc = "select"
    /\ handler.status \in {"created", "pending"}
    /\ \E e \in HandlerEvents(handler.of) :
        handler' = [status |-> "ready", of |-> handler.of, event |-> e]
    /\ UNCHANGED <<config, pc, state, next_event, shutdown_triggered,
                   signal_polled, subscribers, published, last>>
    /\ UNCHANGED <<applied_after_signal, ctxvars>>

\* Variant of the poll in which the signal is looked at by the first poll
\* of the run only
Poll_SignalCheckedOnce ==
    /\ pc = "select"
    /\ signal_polled' = TRUE
    /\ LET r == or_shutdown(shutdown_triggered /\ ~signal_polled, handler)
       IN  IF r.either # "Pending"
           THEN /\ next_event' = <<r.event>>
                /\ handler' = IF r.either = "Left"
                              THEN [status |-> "abandoned", fut |-> handler]
                              ELSE [status |-> "consumed"]
                /\ pc' = "transition"
           ELSE /\ handler' = [status |-> "pending", of |-> handler.of]
                /\ UNCHANGED <<next_event, pc>>
    /\ UNCHANGED <<config, state, shutdown_triggered, subscribers, published, last>>
    /\ UNCHANGED <<applied_after_signal, ctxvars>>

\* run, line 251: one poll of or_shutdown(shutdown_signal, fut).await.
\* When the select resolves, fut is dropped with the block (line 252):
\* consumed if it gave the event, abandoned as it was if the signal won.
Poll ==
    /\ pc = "select"
    /\ signal_polled' = TRUE
    /\ LET r == or_shutdown(shutdown_triggered, handler)
       IN  IF r.either # "Pending"
           THEN /\ next_event' = <<r.event>>
                /\ handler' = IF r.either = "Left"
                              THEN [status |-> "abandoned", fut |-> handler]
                              ELSE [status |-> "consumed"]
                /\ pc' = "transition"
           ELSE /\ handler' = [status |-> "pending", of |-> handler.of]
                /\ UNCHANGED <<next_event, pc>>
    /\ UNCHANGED <<config, state, shutdown_triggered, subscribers, published, last>>
    /\ UNCHANGED <<applied_after_signal, ctxvars>>

\* Variant of the end of an iteration without the break on Shutdown
Transition_NoBreak ==
    /\ pc = "transition"
    /\ ApplyTransition(next_event[1])
    /\ pc' = "loop"
    /\ applied_after_signal' =
          IF shutdown_triggered /\ next_event[1] # EventShutdown
          THEN applied_after_signal + 1
          ELSE applied_after_signal
    /\ UNCHANGED <<config, handler, next_event, shutdown_triggered,
                   signal_polled, subscribers>>
    /\ UNCHANGED ctxvars

\* run, lines 253-256: state = self.transition(state, next_event), then the
\* loop breaks when the new state is Shutdown
Transition ==
    /\ pc = "transition"
    /\ ApplyTransition(next_event[1])
    /\ pc' = IF is_shutdown(transition(config, state[1], next_event[1]).state)
             THEN "returned" ELSE "loop"
    /\ applied_after_signal' =
          IF shutdown_triggered /\ next_event[1] # EventShutdown
          THEN applied_after_signal + 1
          ELSE applied_after_signal
    /\ UNCHANGED <<config, handler, next_event, shutdown_triggered,
                   signal_polled, subscribers>>
    /\ UNCHANGED ctxvars

\* The shutdown signal resolves (Shutdown::trigger, or its owner dropped)
TriggerShutdown ==
    /\ ~shutdown_triggered
    /\ shutdown_triggered' = TRUE
    /\ UNCHANGED <<config, pc, state, handler, next_event, signal_polled,
                   subscribers, published, last>>
    /\ UNCHANGED <<applied_after_signal, ctxvars>>

\* A receiver of event_tx is created (subscribe) or dropped
Subscribe ==
    /\ subscribers < MaxSubscribers
    /\ subscribers' = subscribers + 1
    /\ UNCHANGED <<config, pc, state, handler, next_event, shutdown_triggered,
                   signal_polled, published, last>>
    /\ UNCHANGED <<applied_after_signal, ctxvars>>

Unsubscribe ==
    /\ subscribers > 0
    /\ subscribers' = subscribers - 1
    /\ UNCHANGED <<config, pc, state, handler, next_event, shutdown_triggered,
                   signal_polled, published, last>>
    /\ UNCHANGED <<applied_after_signal, ctxvars>>

Next ==
    \/ RunDisabled
    \/ RunEnabled
    \/ BeginIteration
    \/ HandlerCompletes
    \/ Poll
    \/ Transition
    \/ TriggerShutdown
    \/ Subscribe
    \/ Unsubscribe

Spec == Init /\ [][Next]_vars

(***************************************************************************)
(* SpecCounter: the round counter shared by the clones of one context      *)
(***************************************************************************)
\* the variables of run, which the counter's operations leave alone
runvars == <<config, pc, state, handler, next_event, shutdown_triggered,
             signal_polled, subscribers, published, last, applied_after_signal>>

InitCounter ==
    /\ config \in DhtConfig
    /\ pc = "new"
    /\ state = <<>>
    /\ handler = HandlerNone
    /\ next_event = <<>>
    /\ shutdown_triggered = FALSE
    /\ signal_polled = FALSE
    /\ subscribers = 0
    /\ published = <<>>
    /\ last = <<>>
    /\ applied_after_signal = 0
    /\ InitContext

\* Variant of increment_num_rounds made of a load and a later store: it
\* adds one to the value the clone saw last
IncrementNumRounds_LoadStore(c) ==
    /\ num_rounds < MaxRounds
    /\ num_rounds' = observed[c] + 1
    /\ observed' = [observed EXCEPT ![c] = observed[c]]
    /\ inc_returns' = Append(inc_returns, [caller |-> c, ret |-> observed[c]])
    /\ last_op' = [op |-> "increment_num_rounds", caller |-> c, ret |-> observed[c]]
    /\ UNCHANGED runvars

\* NetworkDiscoveryContext::increment_num_rounds on clone c:
\* self.num_rounds.fetch_add(1, AcqRel), one atomic read-modify-write that
\* returns the previous value
IncrementNumRounds(c) ==
    /\ num_rounds < MaxRounds
    /\ num_rounds' = num_rounds + 1
    /\ observed' = [observed EXCEPT ![c] = num_rounds]
    /\ inc_returns' = Append(inc_returns, [caller |-> c, ret |-> num_rounds])
    /\ last_op' = [op |-> "increment_num_rounds", caller |-> c, ret |-> num_rounds]
    /\ UNCHANGED runvars

\* Variant of num_rounds in which a clone answers from a copy of its own
NumRounds_CloneLocal(c) ==
    /\ last_op' = [op |-> "num_rounds", caller |-> c, ret |-> observed[c]]
    /\ UNCHANGED <<num_rounds, observed, inc_returns>>
    /\ UNCHANGED runvars

\* NetworkDiscoveryContext::num_rounds on clone c:
\* self.num_rounds.load(Relaxed)
NumRounds(c) ==
    /\ observed' = [observed EXCEPT ![c] = num_rounds]
    /\ last_op' = [op |-> "num_rounds", caller |-> c, ret |-> num_rounds]
    /\ UNCHANGED <<num_rounds, inc_returns>>
    /\ UNCHANGED runvars

\* NetworkDiscoveryContext::reset_num_rounds on clone c:
\* self.num_rounds.store(0, Release)
ResetNumRounds(c) ==
    /\ num_rounds' = 0
    /\ inc_returns' = <<>>
    /\ last_op' = [op |-> "reset_num_rounds", caller |-> c, ret |-> 0]
    /\ UNCHANGED observed
    /\ UNCHANGED runvars

NextCounter ==
    \E c \in Callers :
        \/ IncrementNumRounds(c)
        \/ NumRounds(c)
        \/ ResetNumRounds(c)

SpecCounter == InitCounter /\ [][NextCounter]_vars

(***************************************************************************)
(* Properties of the transition function (checked under SpecTransition)    *)
(***************************************************************************)
\* the call of transition recorded in `last` has the given state and event tags
Called(state_tag, event_tag) ==
    /\ last # <<>>
    /\ last[1].from.tag = state_tag
    /\ last[1].event.tag = event_tag

\* C1: whatever the current state (Initializing, Ready, Discovering, Waiting
\* or Shutdown), transition applied to the event Shutdown returns Shutdown.
C1_ShutdownEventYieldsShutdown ==
    (last # <<>> /\ last[1].event = EventShutdown)
        => /\ last[1].to = StateShutdown
           /\ state = <<StateShutdown>>

C1_Witness ==
    /\ Called("Discovering", "Shutdown")
    /\ state = <<StateShutdown>>

\* C2: transition applied to the current state Shutdown returns Shutdown for
\* every event (Shutdown has no outgoing transition).
C2_ShutdownHasNoOutgoingTransition ==
    (last # <<>> /\ last[1].from = StateShutdown)
        => last[1].to = StateShutdown

\* C3: whatever the current state and the error, transition applied to
\* Errored(e) returns Waiting with exactly on_failure_idle_period and
\* publishes nothing.
C3_ErroredBacksOff ==
    (last # <<>> /\ last[1].event.tag = "Errored")
        => /\ last[1].to = StateWaiting(config.on_failure_idle_period)
           /\ last[1].published = <<>>
           /\ published = <<>>

C3_Witness ==
    /\ Called("Ready", "Errored")
    /\ config.idle_period # config.on_failure_idle_period
    /\ state = <<StateWaiting(config.on_failure_idle_period)>>

\* C4: in Discovering, DiscoveryComplete(info) gives Ready seeded with info
\* when info.num_succeeded > 0 and Waiting(on_failure_idle_period) when
\* info.num_succeeded = 0, and nothing else.
C4_RoundOutcomeRoutes ==
    Called("Discovering", "DiscoveryComplete")
        => LET info == last[1].event.stats
           IN  /\ info.num_succeeded > 0 => last[1].to = StateReady(<<info>>)
               /\ info.num_succeeded = 0 =>
                      last[1].to = StateWaiting(config.on_failure_idle_period)

C4_Witness ==
    /\ Called("Discovering", "DiscoveryComplete")
    /\ last[1].event.stats.num_succeeded > 0
    /\ last[1].event.stats.num_new_peers = 0
    /\ state = <<StateReady(<<last[1].event.stats>>)>>

\* C5: a call of transition publishes if and only if the state is
\* Discovering and the event is DiscoveryComplete(info) with
\* info.num_new_peers > 0; it then publishes exactly one event,
\* NetworkDiscoveryPeersAdded(info), success or not.
C5_PeersAddedPublishedIff ==
    last # <<>>
        => LET due == /\ Called("Discovering", "DiscoveryComplete")
                      /\ last[1].event.stats.num_new_peers > 0
           IN  /\ (last[1].published # <<>>) <=> due
               /\ (published # <<>>) <=> due
               /\ due =>
                    /\ last[1].published =
                          <<NetworkDiscoveryPeersAdded(last[1].event.stats)>>
                    /\ Len(published) = 1
                    /\ published[1].event =
                          NetworkDiscoveryPeersAdded(last[1].event.stats)

C5_Witness ==
    /\ Called("Discovering", "DiscoveryComplete")
    /\ last[1].event.stats.num_new_peers > 0
    /\ last[1].event.stats.num_succeeded = 0
    /\ Len(published) = 1

\* C9: transition returns the next state of the row of the table that
\* matches (state, event); when no row matches (Initialized outside
\* Initializing, BeginDiscovery outside Ready, Idle outside Ready,
\* DiscoveryComplete outside Discovering) it returns the state unchanged and
\* publishes nothing.
C9_TableOrUnchanged ==
    last # <<>>
        => LET from == last[1].from
               e == last[1].event
               to == last[1].to
           IN  /\ Called("Initializing", "Initialized") => to = StateReady(<<>>)
               /\ e.tag = "Ready" => to = StateReady(<<>>)
               /\ Called("Ready", "BeginDiscovery") => to = StateDiscovering(e.params)
               /\ Called("Discovering", "DiscoveryComplete") =>
                      to = IF e.stats.num_succeeded > 0
                           THEN StateReady(<<e.stats>>)
                           ELSE StateWaiting(config.on_failure_idle_period)
               /\ Called("Ready", "Idle") => to = StateWaiting(config.idle_period)
               /\ e.tag = "Shutdown" => to = StateShutdown
               /\ e.tag = "Errored" => to = StateWaiting(config.on_failure_idle_period)
               /\ ( \/ e.tag = "Initialized" /\ from.tag # "Initializing"
                    \/ e.tag = "BeginDiscovery" /\ from.tag # "Ready"
                    \/ e.tag = "Idle" /\ from.tag # "Ready"
                    \/ e.tag = "DiscoveryComplete" /\ from.tag # "Discovering" )
                  => /\ to = from
                     /\ state = <<from>>
                     /\ last[1].published = <<>>
                     /\ published = <<>>

C9_Witness ==
    /\ Called("Waiting", "BeginDiscovery")
    /\ state = <<last[1].from>>

\* C10 as stated: Ready with Idle gives Waiting(idle_period), and no other
\* (state, event) pair gives Waiting(idle_period).
C10_OnlyIdleGivesIdlePeriod ==
    last # <<>>
        => /\ Called("Ready", "Idle") => last[1].to = StateWaiting(config.idle_period)
           /\ last[1].to = StateWaiting(config.idle_period) => Called("Ready", "Idle")

\* C10 amended: Ready with Idle gives Waiting(idle_period); any other pair
\* gives Waiting(idle_period) only through a failure arm when
\* on_failure_idle_period equals idle_period, or by returning a current
\* state that already was Waiting(idle_period).
C10_IdleGivesIdlePeriod ==
    last # <<>>
        => /\ Called("Ready", "Idle") => last[1].to = StateWaiting(config.idle_period)
           /\ (last[1].to = StateWaiting(config.idle_period) /\ ~Called("Ready", "Idle"))
                 => \/ /\ config.on_failure_idle_period = config.idle_period
                       /\ \/ last[1].event.tag = "Errored"
                          \/ /\ Called("Discovering", "DiscoveryComplete")
                             /\ last[1].event.stats.num_succeeded = 0
                    \/ /\ last[1].to = last[1].from
                       /\ last[1].event.tag \in
                            {"Initialized", "BeginDiscovery", "Idle", "DiscoveryComplete"}

C10_Witness ==
    /\ Called("Ready", "Idle")
    /\ config.idle_period # config.on_failure_idle_period
    /\ state = <<StateWaiting(config.idle_period)>>

FairSpec ==
    /\ Spec
    /\ WF_vars(RunDisabled)
    /\ WF_vars(RunEnabled)
    /\ WF_vars(BeginIteration)
    /\ WF_vars(Poll)
    /\ WF_vars(Transition)

\* FairSpec, and the timer of a Waiting handler elapses
FairSpecTimer ==
    /\ FairSpec
    /\ WF_vars(HandlerCompletes /\ state[1].tag = "Waiting")

\* C6: once the signal has fired while the loop awaits the handler, the
\* await can only end with the event Shutdown (whatever the handler has
\* done), that event takes the loop to Shutdown and out of run, and this
\* happens even if the handler never completes.
C6_ShutdownPreemptsHandler ==
    /\ [][(pc = "select" /\ shutdown_triggered /\ pc' # "select")
            => /\ next_event' = <<EventShutdown>>
               /\ pc' = "transition"]_vars
    /\ [][(pc = "transition" /\ next_event = <<EventShutdown>> /\ pc' # "transition")
            => /\ state' = <<StateShutdown>>
               /\ pc' = "returned"]_vars
    /\ (pc = "select" /\ shutdown_triggered) ~> (pc = "returned")

C6_Witness ==
    /\ pc = "returned"
    /\ state = <<StateShutdown>>
    /\ Called("Waiting", "Shutdown")
    /\ handler.status = "abandoned"
    /\ handler.fut.status = "pending"

\* C7: an enabled run reaches Shutdown, and returns, only after the signal
\* has fired and by the event Shutdown; a transition on any other event
\* (an error, an unsuccessful round) keeps the loop running.
C7_OnlyShutdownSignalTerminates ==
    /\ (state = <<StateShutdown>> \/ (config.enabled /\ pc = "returned"))
          => /\ shutdown_triggered
             /\ last # <<>>
             /\ last[1].event = EventShutdown
    /\ (last # <<>> /\ last[1].event # EventShutdown)
          => /\ pc = "loop"
             /\ ~is_shutdown(state[1])

C7_Witness ==
    /\ pc = "returned"
    /\ config.enabled
    /\ shutdown_triggered
    /\ Called("Discovering", "Shutdown")

\* C8: with enabled = false run returns at once: no state is created, no
\* handler is constructed or polled, transition is never applied, nothing
\* is published and the signal is never awaited.
C8_DisabledDoesNothing ==
    ~config.enabled
        => /\ pc \in {"run", "returned"}
           /\ state = <<>>
           /\ handler = HandlerNone
           /\ next_event = <<>>
           /\ last = <<>>
           /\ published = <<>>
           /\ ~signal_polled

C8_Witness ==
    /\ ~config.enabled
    /\ pc = "returned"
    /\ shutdown_triggered
    /\ state = <<>>

\* C13: an Errored event, or an unsuccessful round, leaves the loop running
\* in Waiting(on_failure_idle_period); and from any Waiting state, if the
\* timer elapses, the loop comes to a fresh Ready state unless the signal
\* fires.
C13_RetriesAfterBackoff ==
    /\ []( ( /\ last # <<>>
             /\ \/ last[1].event.tag = "Errored"
                \/ /\ Called("Discovering", "DiscoveryComplete")
                   /\ last[1].event.stats.num_succeeded = 0 )
           => /\ state = <<StateWaiting(config.on_failure_idle_period)>>
              /\ pc = "loop" )
    /\ (state # <<>> /\ state[1].tag = "Waiting")
          ~> (state = <<StateReady(<<>>)>> \/ shutdown_triggered)

C13_Witness ==
    /\ Called("Waiting", "Ready")
    /\ last[1].from = StateWaiting(config.on_failure_idle_period)
    /\ config.on_failure_idle_period # config.idle_period
    /\ state = <<StateReady(<<>>)>>
    /\ ~shutdown_triggered

\* C14: run is sequential.  Its position only moves run -> loop -> select
\* -> transition -> loop (or out); within an iteration one event is
\* obtained, from the handler of the current state or from the signal, it
\* is kept as obtained until it is applied, it is applied once, and the
\* state changes by that application only.
C14_LoopIsSequential ==
    /\ [][pc' # pc
            => <<pc, pc'>> \in {<<"run", "loop">>, <<"run", "returned">>,
                               <<"loop", "select">>, <<"select", "transition">>,
                               <<"transition", "loop">>,
                               <<"transition", "returned">>}]_vars
    /\ [][next_event' # next_event
            => \/ /\ pc = "loop"
                  /\ next_event' = <<>>
               \/ /\ pc = "select" /\ pc' = "transition"
                  /\ next_event = <<>>
                  /\ Len(next_event') = 1
                  /\ next_event'[1] \in HandlerEvents(state[1]) \cup {EventShutdown}]_vars
    /\ [][last' # last
            => \/ /\ pc = "loop"
                  /\ last' = <<>>
               \/ /\ pc = "transition" /\ pc' # "transition"
                  /\ last = <<>>
                  /\ Len(last') = 1
                  /\ last'[1].from = state[1]
                  /\ last'[1].event = next_event[1]
                  /\ last'[1].to = state'[1]]_vars
    /\ [][state' # state
            => \/ pc = "run" /\ state' = <<StateInitializing>>
               \/ /\ pc = "transition"
                  /\ last' # last
                  /\ state' = <<transition_match(config, state[1], next_event[1]).state>>]_vars
    /\ [][(pc = "transition" /\ pc' # "transition") => last' # last]_vars

C14_Witness ==
    /\ pc = "loop"
    /\ Called("Ready", "BeginDiscovery")
    /\ next_event = <<last[1].event>>
    /\ state = <<StateDiscovering(last[1].event.params)>>

\* C16: the application of an event is never held up, whatever the number
\* of receivers; after DiscoveryComplete(info) in Discovering the next state
\* depends on info alone, the send (if any) was made once, failed exactly
\* when there was no receiver, and the loop is at the top of its next
\* iteration.
C16_PublishNeverAffectsLoop ==
    /\ pc = "transition" => ENABLED Transition
    /\ Called("Discovering", "DiscoveryComplete")
          => LET info == last[1].event.stats
             IN  /\ pc = "loop"
                 /\ state = <<IF info.num_succeeded > 0
                              THEN StateReady(<<info>>)
                              ELSE StateWaiting(config.on_failure_idle_period)>>
                 /\ Len(published) = IF info.num_new_peers > 0 THEN 1 ELSE 0
                 /\ \A i \in 1..Len(published) :
                        /\ published[i].event = NetworkDiscoveryPeersAdded(info)
                        /\ published[i].ok <=> published[i].receivers > 0

C16_Witness ==
    /\ Called("Discovering", "DiscoveryComplete")
    /\ Len(published) = 1
    /\ published[1].receivers = 0
    /\ ~published[1].ok
    /\ pc = "loop"
    /\ state = <<StateReady(<<last[1].event.stats>>)>>

\* C17: when a poll of the race finds the signal fired and the handler
\* completed, the loop takes Shutdown and drops the handler with its event:
\* that event is never applied, nothing is published in the iteration, and
\* the only thing applied is Shutdown.
C17_ShutdownWinsTie ==
    /\ [][(pc = "select" /\ pc' # "select"
              /\ shutdown_triggered /\ handler.status = "ready")
            => /\ next_event' = <<EventShutdown>>
               /\ handler' = [status |-> "abandoned", fut |-> handler]
               /\ UNCHANGED <<state, published, last>>]_vars
    /\ []( (handler.status = "abandoned" /\ handler.fut.status = "ready")
           => /\ next_event = <<EventShutdown>>
              /\ published = <<>>
              /\ last # <<>> => /\ last[1].event = EventShutdown
                                /\ last[1].published = <<>>
                                /\ state = <<StateShutdown>>
                                /\ pc = "returned" )

C17_Witness ==
    /\ pc = "returned"
    /\ handler.status = "abandoned"
    /\ handler.fut.status = "ready"
    /\ handler.fut.event.tag = "DiscoveryComplete"
    /\ handler.fut.event.stats.num_new_peers > 0
    /\ published = <<>>
    /\ Called("Discovering", "Shutdown")

\* C18: every race that ends after the signal has fired ends with
\* Shutdown, so an event other than Shutdown is obtained only while the
\* signal has not fired; at most one such event, obtained before the signal
\* and applied after it, is applied once the signal has fired.
C18_AtMostOneEventAfterSignal ==
    /\ [](applied_after_signal <= 1)
    /\ [][(pc = "select" /\ pc' = "transition" /\ next_event' # <<EventShutdown>>)
            => (~shutdown_triggered /\ handler.status = "ready")]_vars
    /\ []( (shutdown_triggered /\ pc = "transition" /\ next_event # <<EventShutdown>>)
           => (handler.status = "consumed" /\ applied_after_signal = 0) )
    /\ []( (applied_after_signal = 1 /\ pc = "transition")
           => next_event = <<EventShutdown>> )

C18_Witness ==
    /\ applied_after_signal = 1
    /\ pc = "returned"
    /\ last # <<>>
    /\ last[1].from.tag = "Discovering"
    /\ last[1].event = EventShutdown

\* C19: in a run of the loop the state becomes a Discovering state only by
\* applying BeginDiscovery(params) to a Ready state, and the new state holds
\* the params of the event; and a
\* BeginDiscovery event applied to the current state when it is not Ready
\* would leave that state as it is.
C19_DiscoveringOnlyFromReady ==
    /\ [][(state' # state /\ state'[1].tag = "Discovering")
            => /\ pc = "transition"
               /\ state[1].tag = "Ready"
               /\ next_event[1].tag = "BeginDiscovery"
               /\ state'[1] = StateDiscovering(next_event[1].params)]_vars
    /\ []( (state # <<>> /\ state[1].tag # "Ready")
           => \A p \in DiscoveryParams :
                 transition(config, state[1], EventBeginDiscovery(p)).state = state[1] )
    /\ []( (last # <<>> /\ last[1].event.tag = "BeginDiscovery"
              /\ last[1].from.tag # "Ready")
           => state[1] = last[1].from )

C19_Witness ==
    /\ pc = "loop"
    /\ Called("Ready", "BeginDiscovery")
    /\ state[1].tag = "Discovering"
    /\ state[1].params = last[1].event.params
    /\ state[1].params.peers # <<>>

\* C20: while the loop is about to create, is polling, or is about to apply
\* the event of a handler, the current state is not Shutdown, so the future
\* created for it is a handler operation and never the immediate Shutdown
\* of the last arm of get_next_event, and transition is never applied to
\* Shutdown; the state is Shutdown exactly when run has returned from the
\* loop; and an enabled run enters the loop in Initializing.
C20_LoopNeverRunsInShutdown ==
    /\ []( pc \in {"loop", "select", "transition"}
           => /\ ~is_shutdown(state[1])
              /\ get_next_event(state[1]).status = "created" )
    /\ []( handler.status \in {"created", "pending", "ready"}
           => ~is_shutdown(handler.of) )
    /\ []( last # <<>> => ~is_shutdown(last[1].from) )
    /\ []( (state # <<>> /\ is_shutdown(state[1])) <=> (pc = "returned" /\ config.enabled) )
    /\ [][(pc = "run" /\ pc' = "loop")
            => (config.enabled /\ state' = <<StateInitializing>>)]_vars
    /\ [][(pc = "transition" /\ is_shutdown(state'[1])) => pc' = "returned"]_vars

C20_Witness ==
    /\ pc = "returned"
    /\ state = <<StateShutdown>>
    /\ Called("Waiting", "Shutdown")
    /\ handler.status = "abandoned"
    /\ handler.fut.of = last[1].from

(***************************************************************************)
(* Properties of the round counter (checked under SpecCounter)             *)
(***************************************************************************)
\* C11: the calls of increment_num_rounds made by the clones since the
\* counter was last zero returned 0, 1, .., N-1 in the order they took
\* effect, each the count just before its own increment, and the counter is
\* N: no value is returned twice and no increment is lost.
C11_IncrementIsAtomic ==
    /\ num_rounds = Len(inc_returns)
    /\ \A i \in 1..Len(inc_returns) : inc_returns[i].ret = i - 1
    /\ last_op.op = "increment_num_rounds" => num_rounds = last_op.ret + 1

C11_Witness ==
    /\ Len(inc_returns) = 3
    /\ inc_returns[1].caller # inc_returns[2].caller
    /\ inc_returns[3].caller = inc_returns[1].caller
    /\ num_rounds = 3

\* C12: the counter goes down only in a step of reset_num_rounds, which
\* leaves it at zero; num_rounds returns the current value, whichever clone
\* asks, and changes nothing.
C12_MonotoneExceptReset ==
    /\ [][num_rounds' < num_rounds
            => (last_op'.op = "reset_num_rounds" /\ num_rounds' = 0)]_vars
    /\ [][last_op'.op = "reset_num_rounds" => num_rounds' = 0]_vars
    /\ [][last_op'.op = "num_rounds"
            => /\ last_op'.ret = num_rounds
               /\ num_rounds' = num_rounds
               /\ inc_returns' = inc_returns]_vars

C12_Witness ==
    /\ last_op = [op |-> "num_rounds", caller |-> 2, ret |-> 0]
    /\ observed[1] = 1
    /\ num_rounds = 0

====
